---- MODULE Spec2Model ----
(***************************************************************************)
(* A model of the scenery-mermaid-demo flowchart: MermaidNode,             *)
(* MermaidDirectionalEdgeNode, the EnteringEdgeNode / ExitingEdgeNode      *)
(* controls, the lazy resize logic and the layout listener.                *)
(*                                                                         *)
(* Coordinates are fixed-point numbers: one pixel is 16 units (Px), so     *)
(* that halves of pixel values and the cubic's point at t = 1/2 (a         *)
(* division by 8 of a sum of half-pixel values) are exact.                 *)
(***************************************************************************)
EXTENDS Integers, Sequences, FiniteSets, TLC

\* ------------------------------------------------------------------ bounds
\* number of MermaidNodes of the graph (the demo has 11)
NumNodes == 2
\* number of MermaidDirectionalEdgeNodes that may be constructed (the demo has 15)
MaxEdges == 2
\* number of line segments the offset primitive (strokeLeft / strokeRight)
\* returns for one side of the cubic
StrokeSegments == 2
\* resize events counted between two resize() calls
MaxEvents == 2

\* ------------------------------------------------------------ dot: Vector2
Px(n) == n * 16

Vector2(x, y) == <<x, y>>

ZERO == Vector2(0, 0)

plus(a, b) == <<a[1] + b[1], a[2] + b[2]>>

minus(a, b) == <<a[1] - b[1], a[2] - b[2]>>

timesScalar(v, s) == <<v[1] * s, v[2] * s>>

perpendicular(v) == <<v[2], -v[1]>>

\* ------------------------------------------------------------ dot: Bounds2
Bounds2(minX, minY, maxX, maxY) == [minX |-> minX, minY |-> minY, maxX |-> maxX, maxY |-> maxY]

centerX(b) == (b.minX + b.maxX) \div 2

centerY(b) == (b.minY + b.maxY) \div 2

centerTop(b) == Vector2(centerX(b), b.minY)

centerBottom(b) == Vector2(centerX(b), b.maxY)

leftCenter(b) == Vector2(b.minX, centerY(b))

rightCenter(b) == Vector2(b.maxX, centerY(b))

center(b) == Vector2(centerX(b), centerY(b))

dilated(b, d) == Bounds2(b.minX - d, b.minY - d, b.maxX + d, b.maxY + d)

shifted(b, v) == Bounds2(b.minX + v[1], b.minY + v[2], b.maxX + v[1], b.maxY + v[2])

Min(a, b) == IF a <= b THEN a ELSE b

Max(a, b) == IF a >= b THEN a ELSE b

union(a, b) == Bounds2(Min(a.minX, b.minX), Min(a.minY, b.minY), Max(a.maxX, b.maxX), Max(a.maxY, b.maxY))

\* ---------------------------------------------------------------- kite: Shape
\* A vertex is a Vector2, or - for a vertex of an offset curve - the tuple
\* <<x, y, tx, ty, r>>: the centerline point (x, y) displaced by r along the
\* normalized perpendicular of the tangent (tx, ty).  A segment is a line
\* [start, end]; a subpath is a sequence of segments; a Shape is the set of
\* the closed subpaths whose regions it unites.
\* null is the absent text; an absent object (a null shape, heading or label
\* Panel) is None and a present one, x, is Some(x), with the value Some(x)[1].
null == "null"

None == <<>>

Some(x) == <<x>>

KiteLine(start, end) == [start |-> start, end |-> end]

translatedVertex(v, t) == IF Len(v) = 2 THEN plus(v, t) ELSE <<v[1] + t[1], v[2] + t[2], v[3], v[4], v[5]>>

translatedSubpath(sp, t) == [i \in 1..Len(sp) |-> KiteLine(translatedVertex(sp[i].start, t), translatedVertex(sp[i].end, t))]

\* Shape.transformed( matrix ) for a translation matrix
transformed(shape, t) == {translatedSubpath(sp, t) : sp \in shape}

shapeUnion(a, b) == a \cup b

\* Shape.bounds( bounds ): the rectangle as one closed subpath
boundsShape(b) ==
  {<<KiteLine(Vector2(b.minX, b.minY), Vector2(b.maxX, b.minY)),
     KiteLine(Vector2(b.maxX, b.minY), Vector2(b.maxX, b.maxY)),
     KiteLine(Vector2(b.maxX, b.maxY), Vector2(b.minX, b.maxY)),
     KiteLine(Vector2(b.minX, b.maxY), Vector2(b.minX, b.minY))>>}

\* ---------------------------------------------------------------- kite: Cubic
Cubic(p0, p1, p2, p3) == [start |-> p0, control1 |-> p1, control2 |-> p2, end |-> p3]

\* Cubic.positionAt( i / n ), Bernstein form
positionAt(c, i, n) ==
  LET w0 == (n - i) * (n - i) * (n - i)
      w1 == 3 * (n - i) * (n - i) * i
      w2 == 3 * (n - i) * i * i
      w3 == i * i * i
      sum == plus(plus(timesScalar(c.start, w0), timesScalar(c.control1, w1)),
                  plus(timesScalar(c.control2, w2), timesScalar(c.end, w3)))
  IN Vector2(sum[1] \div (n * n * n), sum[2] \div (n * n * n))

\* the direction of Cubic.tangentAt( i / n ), up to a positive factor
tangentAt(c, i, n) ==
  plus(plus(timesScalar(minus(c.control1, c.start), (n - i) * (n - i)),
            timesScalar(minus(c.control2, c.control1), 2 * (n - i) * i)),
       timesScalar(minus(c.end, c.control2), i * i))

offsetVertex(c, i, n, r) ==
  LET p == positionAt(c, i, n)
      t == tangentAt(c, i, n)
  IN <<p[1], p[2], t[1], t[2], r>>

\* the offset primitive behind strokeLeft and strokeRight: the offset curve at
\* r as quantity line segments, from the start of the cubic to its end or,
\* reversed, from its end to its start
offsetTo(c, r, reverse, quantity) ==
  [k \in 1..quantity |->
     IF reverse
     THEN KiteLine(offsetVertex(c, quantity - (k - 1), quantity, r), offsetVertex(c, quantity - k, quantity, r))
     ELSE KiteLine(offsetVertex(c, k - 1, quantity, r), offsetVertex(c, k, quantity, r))]

\* Cubic.strokeLeft( lineWidth ): the offset curve at -lineWidth / 2 as line
\* segments from the start of the cubic to its end
strokeLeft(c, lineWidth) == offsetTo(c, -(lineWidth \div 2), FALSE, StrokeSegments)

\* Cubic.strokeRight( lineWidth ): the offset curve at lineWidth / 2, reversed,
\* as line segments from the end of the cubic to its start
strokeRight(c, lineWidth) == offsetTo(c, lineWidth \div 2, TRUE, StrokeSegments)

\* ------------------------------------------------------------- graph data
Nodes == 1..NumNodes

\* the four recognized sides, and a value outside them
Sides == {"top", "bottom", "left", "right"}

Connections == Sides \cup {"diagonal"}

\* options.text of the MermaidNodes, in the order of the nodes array, and of
\* two further MermaidNodes, A and B, that stand alone (BoxNodes below)
NodeText ==
  <<"Does it work?", "Don't mess with it", "Did you mess with it?", "You idiot!",
    "Will you be blamed anyway?", "Forget about it!", "Does anyone else know?",
    "Hide it", "You're toast!", "Can you blame someone else?", "No problem!",
    "A", "B">>

\* options.shape of the MermaidNodes
NodeShape ==
  <<"diamond", "square", "diamond", "square", "diamond", "square", "diamond",
    "square", "square", "diamond", "square",
    "square", "square">>

\* the measured bounds of a node's RichText (font 16, lineWrap 100), in pixels;
\* those of A and B are the ones that give a square node a box of 100 x 40
TextSize ==
  <<<<95, 18>>, <<88, 37>>, <<99, 37>>, <<70, 18>>, <<98, 56>>, <<97, 37>>,
    <<96, 37>>, <<49, 18>>, <<91, 18>>, <<100, 56>>, <<87, 18>>,
    <<60, 0>>, <<60, 0>>>>

textNodeBounds(n) == Bounds2(0, 0, Px(TextSize[n][1]), Px(TextSize[n][2]))

diamondX == 80

diamondY == 50

\* the bounds of shapeNode: the dilated text bounds, or the diamond's box
shapeNodeBounds(n) ==
  LET tb == textNodeBounds(n)
  IN IF NodeShape[n] = "square"
     THEN dilated(tb, Px(20))
     ELSE Bounds2(centerX(tb) - Px(diamondX), centerY(tb) - Px(diamondY),
                  centerX(tb) + Px(diamondX), centerY(tb) + Px(diamondY))

\* local bounds of a MermaidNode: its children shapeNode and textNode (the two
\* container nodes and the controls in them draw nothing)
localBounds(n) == union(shapeNodeBounds(n), textNodeBounds(n))

\* the col and row arguments of the place calls, doubled, in the order of the
\* nodes array
GridPos ==
  <<<<0, 0>>, <<-3, 2>>, <<3, 2>>, <<1, 3>>, <<3, 5>>, <<3, 8>>, <<-1, 3>>,
    <<-2, 6>>, <<0, 6>>, <<0, 8>>, <<0, 11>>>>

\* the two MermaidNodes that are given their boxes directly: A and B
nodeA == Len(GridPos) + 1

nodeB == Len(GridPos) + 2

BoxNodes == {nodeA, nodeB}

\* the translations that put A's box at (0,0)-(100,40) or at (-100,40)-(0,80),
\* and B's box at (0,200)-(100,240) or at (200,100)-(300,140)
BoxPlacements ==
  {[n \in BoxNodes |-> IF n = nodeA THEN a ELSE b] :
     a \in {Vector2(Px(20), Px(20)), Vector2(Px(-80), Px(60))},
     b \in {Vector2(Px(20), Px(220)), Vector2(Px(220), Px(120))}}

\* the measured size of an edge label's Panel background, in pixels
PanelSize(text) == IF text = "Yes" THEN <<38, 28>> ELSE <<33, 28>>

MERMAID_DIRECTIONAL_EDGE_DEFAULT_OPTIONS ==
  [text |-> null, startOffset |-> ZERO, endOffset |-> ZERO,
   startTangentDistance |-> Px(50), endTangentDistance |-> Px(50)]

\* optionize3: the provided options over the defaults
optionize3(defaults, providedOptions) ==
  [k \in DOMAIN defaults |->
     IF k \in DOMAIN providedOptions THEN providedOptions[k] ELSE defaults[k]]

\* window sizes (innerWidth, innerHeight) in pixels
WindowSizes == {<<800, 600>>, <<1001, 700>>}

\* ------------------------------------------------------------------ state
VARIABLES
  window,              \* <<innerWidth, innerHeight>> of the browser window, pixels
  layoutBounds,        \* layoutBoundsProperty.value
  resizePending,       \* the lazy-resize flag
  phase,               \* "assemble": the module body is building the graph;
                       \* "running": the listener is linked and frames fire;
                       \* "crashed": the module body ended with an exception
  nodeMatrix,          \* the translation of each MermaidNode
  edges,               \* the edges array: the constructed MermaidDirectionalEdgeNodes
  controls,            \* the constructed EnteringEdgeNode / ExitingEdgeNode objects
  enteringEdgeNodes,   \* MermaidNode.enteringEdgeNodes: control ids, per node
  exitingEdgeNodes,    \* MermaidNode.exitingEdgeNodes: control ids, per node
  enteringEdgesNode,   \* MermaidNode.enteringEdgesNode: the container, per node
  exitingEdgesNode,    \* MermaidNode.exitingEdgesNode: the container, per node
  focus,               \* the MermaidNode holding the focus, 0 for none
  events,              \* resize events received since the last resize() call
  last                 \* what the last step did (a record for the properties)

vars ==
  <<window, layoutBounds, resizePending, phase, nodeMatrix, edges, controls,
    enteringEdgeNodes, exitingEdgeNodes, enteringEdgesNode, exitingEdgesNode,
    focus, events, last>>

\* new Bounds2( 0, 0, window.innerWidth, window.innerHeight )
windowBounds(w) == Bounds2(0, 0, Px(w[1]), Px(w[2]))

\* a new Node() used as a container: no children, no heading, no tag
emptyContainer == [children |-> <<>>, accessibleHeading |-> None, tagName |-> null]

\* ------------------------------------------------------------- MermaidNode
\* Node.bounds of a MermaidNode: its local bounds in its parent's frame
bounds(matrix, n) == shifted(localBounds(n), matrix[n])

getBottomAttachmentPoint(matrix, n) == centerBottom(bounds(matrix, n))

getTopAttachmentPoint(matrix, n) == centerTop(bounds(matrix, n))

\* mutant: the left attachment point taken on the right side
getLeftAttachmentPoint_RightSide(matrix, n) == rightCenter(bounds(matrix, n))

getLeftAttachmentPoint(matrix, n) == leftCenter(bounds(matrix, n))

getRightAttachmentPoint(matrix, n) == rightCenter(bounds(matrix, n))

\* the label parts of `named ${edge.text} `
named(text) == IF text # null THEN <<"named", text>> ELSE <<>>

\* new EnteringEdgeNode( node, edge )
EnteringEdgeNode(n, e, edge) ==
  [kind |-> "entering", node |-> n, edge |-> e,
   accessibleName |-> <<"Edge", named(edge.text)>>,
   accessibleHelpText |-> <<"Retrace the edge", named(edge.text), "moving back to", NodeText[edge.startNode]>>,
   focusHighlight |-> None]

\* new ExitingEdgeNode( node, edge )
ExitingEdgeNode(n, e, edge) ==
  [kind |-> "exiting", node |-> n, edge |-> e,
   accessibleName |-> <<"Edge", named(edge.text)>>,
   accessibleHelpText |-> <<"Follow the edge", named(edge.text), "moving to", NodeText[edge.endNode]>>,
   focusHighlight |-> None]

\* mutant: the heading and tag set on every registration but the first
firstRegistration_NotOnFirst(container, heading, n) ==
  IF Len(container.children) # 0
  THEN [container EXCEPT !.accessibleHeading = Some(<<heading, NodeText[n]>>), !.tagName = "ul"]
  ELSE container

\* the heading and tag a container gets on its first registration
firstRegistration(container, heading, n) ==
  IF Len(container.children) = 0
  THEN [container EXCEPT !.accessibleHeading = Some(<<heading, NodeText[n]>>), !.tagName = "ul"]
  ELSE container

\* MermaidNode.registerEnteringEdge( edge ) on the scene h; e is the edge's index
registerEnteringEdge(h, n, e, edge) ==
  LET id == Len(h.controls) + 1
      container == firstRegistration(h.enteringEdgesNode[n], "Edges entering", n)
  IN [h EXCEPT
        !.controls = Append(h.controls, EnteringEdgeNode(n, e, edge)),
        !.enteringEdgeNodes[n] = Append(h.enteringEdgeNodes[n], id),
        !.enteringEdgesNode[n] = [container EXCEPT !.children = Append(container.children, id)]]

\* MermaidNode.registerExitingEdge( edge ) on the scene h; e is the edge's index
registerExitingEdge(h, n, e, edge) ==
  LET id == Len(h.controls) + 1
      container == firstRegistration(h.exitingEdgesNode[n], "Edges exiting", n)
  IN [h EXCEPT
        !.controls = Append(h.controls, ExitingEdgeNode(n, e, edge)),
        !.exitingEdgeNodes[n] = Append(h.exitingEdgeNodes[n], id),
        !.exitingEdgesNode[n] = [container EXCEPT !.children = Append(container.children, id)]]

\* ------------------------------------------------- MermaidDirectionalEdgeNode
\* the fields the constructor sets from its arguments and the merged options
newEdge(startNode, endNode, startConnection, endConnection, providedOptions) ==
  LET options == optionize3(MERMAID_DIRECTIONAL_EDGE_DEFAULT_OPTIONS, providedOptions)
  IN [startNode |-> startNode, endNode |-> endNode,
      startConnection |-> startConnection, endConnection |-> endConnection,
      text |-> options.text,
      startOffset |-> options.startOffset, endOffset |-> options.endOffset,
      startTangentDistance |-> options.startTangentDistance,
      endTangentDistance |-> options.endTangentDistance,
      arrow |-> None,
      textNode |-> IF options.text # null
                   THEN Some([background |-> Bounds2(0, 0, Px(PanelSize(options.text)[1]), Px(PanelSize(options.text)[2])),
                              matrix |-> ZERO])
                   ELSE None]

\* the scene the constructor reads and writes
scene ==
  [controls |-> controls,
   enteringEdgeNodes |-> enteringEdgeNodes, exitingEdgeNodes |-> exitingEdgeNodes,
   enteringEdgesNode |-> enteringEdgesNode, exitingEdgesNode |-> exitingEdgesNode]

\* mutant: both registrations made on the start node
registerBoth_OnStartNode(h, e, edge) ==
  registerEnteringEdge(registerExitingEdge(h, edge.startNode, e, edge), edge.startNode, e, edge)

\* the constructor's two registrations: the start node's exiting control first
registerBoth(h, e, edge) ==
  registerEnteringEdge(registerExitingEdge(h, edge.startNode, e, edge), edge.endNode, e, edge)

\* MermaidDirectionalEdgeNode.getAttachmentPoint( node, connection ): the point,
\* or threw for a connection outside the four cases of the switch
getAttachmentPoint(matrix, n, connection) ==
  CASE connection = "top" -> [threw |-> FALSE, point |-> getTopAttachmentPoint(matrix, n)]
    [] connection = "bottom" -> [threw |-> FALSE, point |-> getBottomAttachmentPoint(matrix, n)]
    [] connection = "left" -> [threw |-> FALSE, point |-> getLeftAttachmentPoint(matrix, n)]
    [] connection = "right" -> [threw |-> FALSE, point |-> getRightAttachmentPoint(matrix, n)]
    [] OTHER -> [threw |-> TRUE, point |-> ZERO]

arrowHeadLength == 15

arrowHeadWidth == 12

lineWidth == 2

\* mutant: the tangents of top and bottom exchanged
tangentMap_TopBottomSwapped(connection) ==
  CASE connection = "top" -> Vector2(0, 1)
    [] connection = "bottom" -> Vector2(0, -1)
    [] connection = "left" -> Vector2(-1, 0)
    [] connection = "right" -> Vector2(1, 0)

tangentMap(connection) ==
  CASE connection = "top" -> Vector2(0, -1)
    [] connection = "bottom" -> Vector2(0, 1)
    [] connection = "left" -> Vector2(-1, 0)
    [] connection = "right" -> Vector2(1, 0)

\* mutant: the second control point taken from the true end point, not from
\* the extended one
arrowPoints_Control2FromEndPoint(edge, matrix) ==
  LET startPoint == plus(getAttachmentPoint(matrix, edge.startNode, edge.startConnection).point, edge.startOffset)
      endPoint == plus(getAttachmentPoint(matrix, edge.endNode, edge.endConnection).point, edge.endOffset)
      startTangent == tangentMap(edge.startConnection)
      endTangent == tangentMap(edge.endConnection)
      bezierEndPoint == plus(endPoint, timesScalar(endTangent, Px(arrowHeadLength)))
  IN [startPoint |-> startPoint, endPoint |-> endPoint,
      arrowHeadLeft |-> plus(bezierEndPoint, timesScalar(perpendicular(endTangent), Px(arrowHeadWidth) \div 2)),
      arrowHeadRight |-> plus(bezierEndPoint, timesScalar(perpendicular(endTangent), -(Px(arrowHeadWidth) \div 2))),
      mainCubic |-> Cubic(startPoint, plus(startPoint, timesScalar(startTangent, edge.startTangentDistance)),
                          plus(endPoint, timesScalar(endTangent, edge.endTangentDistance)), bezierEndPoint)]

\* mutant: the arrowhead wings taken beside the true end point, not beside the
\* end of the extended centerline
arrowPoints_WingsFromEndPoint(edge, matrix) ==
  LET startPoint == plus(getAttachmentPoint(matrix, edge.startNode, edge.startConnection).point, edge.startOffset)
      endPoint == plus(getAttachmentPoint(matrix, edge.endNode, edge.endConnection).point, edge.endOffset)
      startTangent == tangentMap(edge.startConnection)
      endTangent == tangentMap(edge.endConnection)
      bezierEndPoint == plus(endPoint, timesScalar(endTangent, Px(arrowHeadLength)))
  IN [startPoint |-> startPoint, endPoint |-> endPoint,
      arrowHeadLeft |-> plus(endPoint, timesScalar(perpendicular(endTangent), Px(arrowHeadWidth) \div 2)),
      arrowHeadRight |-> plus(endPoint, timesScalar(perpendicular(endTangent), -(Px(arrowHeadWidth) \div 2))),
      mainCubic |-> Cubic(startPoint, plus(startPoint, timesScalar(startTangent, edge.startTangentDistance)),
                          plus(bezierEndPoint, timesScalar(endTangent, edge.endTangentDistance)), bezierEndPoint)]

\* the points updateArrow computes before it builds the outline
arrowPoints(edge, matrix) ==
  LET startPoint == plus(getAttachmentPoint(matrix, edge.startNode, edge.startConnection).point, edge.startOffset)
      endPoint == plus(getAttachmentPoint(matrix, edge.endNode, edge.endConnection).point, edge.endOffset)
      startTangent == tangentMap(edge.startConnection)
      endTangent == tangentMap(edge.endConnection)
      bezierStartPoint == startPoint
      bezierEndPoint == plus(endPoint, timesScalar(endTangent, Px(arrowHeadLength)))
      bezierControlPoint1 == plus(bezierStartPoint, timesScalar(startTangent, edge.startTangentDistance))
      bezierControlPoint2 == plus(bezierEndPoint, timesScalar(endTangent, edge.endTangentDistance))
  IN [startPoint |-> startPoint, endPoint |-> endPoint,
      arrowHeadLeft |-> plus(bezierEndPoint, timesScalar(perpendicular(endTangent), Px(arrowHeadWidth) \div 2)),
      arrowHeadRight |-> plus(bezierEndPoint, timesScalar(perpendicular(endTangent), -(Px(arrowHeadWidth) \div 2))),
      mainCubic |-> Cubic(bezierStartPoint, bezierControlPoint1, bezierControlPoint2, bezierEndPoint)]

\* mutant: the arrowhead drawn to the end of the extended centerline
arrowSubpath_TipAtCurveEnd(pts) ==
  LET strokedLeft == strokeLeft(pts.mainCubic, Px(lineWidth))
      strokedRight == strokeRight(pts.mainCubic, Px(lineWidth))
  IN strokedLeft
     \o <<KiteLine(strokedLeft[Len(strokedLeft)].end, pts.arrowHeadLeft),
          KiteLine(pts.arrowHeadLeft, pts.mainCubic.end),
          KiteLine(pts.mainCubic.end, pts.arrowHeadRight),
          KiteLine(pts.arrowHeadRight, strokedRight[1].start)>>
     \o strokedRight
     \o <<KiteLine(strokedRight[Len(strokedLeft)].end, strokedLeft[1].start)>>

\* the Subpath of arrowShape, built from the segments strokedLeft and
\* strokedRight: threw when strokedRight[ strokedLeft.length - 1 ] is undefined
\* and its end is read
arrowSubpathOf(strokedLeft, strokedRight, pts) ==
  IF Len(strokedLeft) > Len(strokedRight)
  THEN [threw |-> TRUE, subpath |-> <<>>]
  ELSE [threw |-> FALSE,
        subpath |-> strokedLeft
                    \o <<KiteLine(strokedLeft[Len(strokedLeft)].end, pts.arrowHeadLeft),
                         KiteLine(pts.arrowHeadLeft, pts.endPoint),
                         KiteLine(pts.endPoint, pts.arrowHeadRight),
                         KiteLine(pts.arrowHeadRight, strokedRight[1].start)>>
                    \o strokedRight
                    \o <<KiteLine(strokedRight[Len(strokedLeft)].end, strokedLeft[1].start)>>]

\* the Subpath of arrowShape
arrowSubpath(pts) ==
  arrowSubpathOf(strokeLeft(pts.mainCubic, Px(lineWidth)), strokeRight(pts.mainCubic, Px(lineWidth)), pts).subpath

\* Node.center = p for the label Panel: move it so that its bounds are centred at p
setCenter(textNode, p) ==
  [textNode EXCEPT !.matrix = plus(textNode.matrix, minus(p, center(shifted(textNode.background, textNode.matrix))))]

\* MermaidDirectionalEdgeNode.updateArrow(): the edge with its new arrow shape
\* and label position, or threw with the edge as it was
updateArrow(edge, matrix) ==
  IF getAttachmentPoint(matrix, edge.startNode, edge.startConnection).threw
     \/ getAttachmentPoint(matrix, edge.endNode, edge.endConnection).threw
  THEN [threw |-> TRUE, edge |-> edge]
  ELSE LET pts == arrowPoints(edge, matrix)
       IN [threw |-> FALSE,
           edge |-> [edge EXCEPT
                       !.arrow = Some({arrowSubpath(pts)}),
                       !.textNode = IF edge.textNode # None
                                    THEN Some(setCenter(edge.textNode[1], positionAt(pts.mainCubic, 1, 2)))
                                    ELSE None]]

\* updateArrow() with the offset primitive returning left segments for
\* strokeLeft and right segments for strokeRight
updateArrowWith(edge, matrix, left, right) ==
  IF getAttachmentPoint(matrix, edge.startNode, edge.startConnection).threw
     \/ getAttachmentPoint(matrix, edge.endNode, edge.endConnection).threw
  THEN [threw |-> TRUE, edge |-> edge]
  ELSE LET pts == arrowPoints(edge, matrix)
           strokedLeft == offsetTo(pts.mainCubic, -(Px(lineWidth) \div 2), FALSE, left)
           strokedRight == offsetTo(pts.mainCubic, Px(lineWidth) \div 2, TRUE, right)
           sub == arrowSubpathOf(strokedLeft, strokedRight, pts)
       IN IF sub.threw
          THEN [threw |-> TRUE, edge |-> edge]
          ELSE [threw |-> FALSE,
                edge |-> [edge EXCEPT
                            !.arrow = Some({sub.subpath}),
                            !.textNode = IF edge.textNode # None
                                         THEN Some(setCenter(edge.textNode[1], positionAt(pts.mainCubic, 1, 2)))
                                         ELSE None]]

\* mutant: the arrow outline alone, the label left out
getArrowShape_ArrowOnly(edge) ==
  IF edge.arrow = None
  THEN [threw |-> TRUE, shape |-> {}]
  ELSE [threw |-> FALSE, shape |-> edge.arrow[1]]

\* MermaidDirectionalEdgeNode.getArrowShape(): the shape, or threw when the
\* arrow Path still holds the null shape it was constructed with
getArrowShape(edge) ==
  IF edge.arrow = None
  THEN [threw |-> TRUE, shape |-> {}]
  ELSE [threw |-> FALSE,
        shape |-> IF edge.textNode # None
                  THEN shapeUnion(transformed(boundsShape(edge.textNode[1].background), edge.textNode[1].matrix), edge.arrow[1])
                  ELSE edge.arrow[1]]

\* Node.getLocalToGlobalMatrix() of an edge: a child of rootNode, never moved
edgeLocalToGlobalMatrix(edge) == ZERO

\* Node.getLocalToGlobalMatrix() of a control: its MermaidNode's translation
\* (the container and the control itself are never moved)
controlLocalToGlobalMatrix(control, matrix) == matrix[control.node]

\* mutant: the global-to-local matrix taken without inverting
controlGlobalToLocalMatrix_NotInverted(control, matrix) == controlLocalToGlobalMatrix(control, matrix)

\* Node.getGlobalToLocalMatrix() of a control: the inverse
controlGlobalToLocalMatrix(control, matrix) == timesScalar(controlLocalToGlobalMatrix(control, matrix), -1)

\* EnteringEdgeNode.updateHighlight() / ExitingEdgeNode.updateHighlight()
updateHighlight(control, es, matrix) ==
  LET edgeShape == getArrowShape(es[control.edge])
  IN IF edgeShape.threw
     THEN [threw |-> TRUE, control |-> control]
     ELSE LET globalShape == transformed(edgeShape.shape, edgeLocalToGlobalMatrix(es[control.edge]))
              localShape == transformed(globalShape, controlGlobalToLocalMatrix(control, matrix))
          IN [threw |-> FALSE, control |-> [control EXCEPT !.focusHighlight = Some(localShape)]]

\* ------------------------------------------------------- the layout listener
topY == 100

dx == 200

dy == 120

\* mutant: the node moved by the wanted centre, not to it
place_MovedBy(matrix, n, centerXOfBounds) ==
  LET wantedX == centerXOfBounds + (GridPos[n][1] * Px(dx)) \div 2
      wantedY == Px(topY) + (GridPos[n][2] * Px(dy)) \div 2
  IN [matrix EXCEPT ![n] = Vector2(matrix[n][1] + wantedX, matrix[n][2] + wantedY)]

\* place( node, col, row ): node.centerX = ..., node.centerY = ... move the node
\* by the difference between the wanted and the current centre of its bounds
place(matrix, n, centerXOfBounds) ==
  LET b == bounds(matrix, n)
      wantedX == centerXOfBounds + (GridPos[n][1] * Px(dx)) \div 2
      wantedY == Px(topY) + (GridPos[n][2] * Px(dy)) \div 2
  IN [matrix EXCEPT ![n] = Vector2(matrix[n][1] + (wantedX - centerX(b)), matrix[n][2] + (wantedY - centerY(b)))]

\* the place calls for the nodes n..NumNodes
RECURSIVE placeFrom(_, _, _)
placeFrom(matrix, n, centerXOfBounds) ==
  IF n > NumNodes THEN matrix
  ELSE placeFrom(place(matrix, n, centerXOfBounds), n + 1, centerXOfBounds)

\* for ( const edge of edges ) edge.updateArrow(), from edge i on: the loop
\* ends at the first edge whose updateArrow throws
RECURSIVE updateArrowsFrom(_, _, _, _)
updateArrowsFrom(es, i, matrix, done) ==
  IF i > Len(es) THEN [threw |-> FALSE, edges |-> es, arrows |-> done, failed |-> 0]
  ELSE LET r == updateArrow(es[i], matrix)
       IN IF r.threw
          THEN [threw |-> TRUE, edges |-> es, arrows |-> done, failed |-> i]
          ELSE updateArrowsFrom([es EXCEPT ![i] = r.edge], i + 1, matrix, Append(done, i))

\* mutant: the entering controls of each node visited twice, the exiting never
RECURSIVE edgeNodesFrom_EnteringTwice(_)
edgeNodesFrom_EnteringTwice(n) ==
  IF n > NumNodes THEN <<>>
  ELSE enteringEdgeNodes[n] \o enteringEdgeNodes[n] \o edgeNodesFrom_EnteringTwice(n + 1)

\* [ ...node.enteringEdgeNodes, ...node.exitingEdgeNodes ] for the nodes n..NumNodes
RECURSIVE edgeNodesFrom(_)
edgeNodesFrom(n) ==
  IF n > NumNodes THEN <<>>
  ELSE enteringEdgeNodes[n] \o exitingEdgeNodes[n] \o edgeNodesFrom(n + 1)

\* edgeNode.updateHighlight() for the controls ids[k..]
RECURSIVE updateHighlightsFrom(_, _, _, _, _, _)
updateHighlightsFrom(cs, ids, k, es, matrix, done) ==
  IF k > Len(ids) THEN [threw |-> FALSE, controls |-> cs, highlights |-> done]
  ELSE LET r == updateHighlight(cs[ids[k]], es, matrix)
       IN IF r.threw
          THEN [threw |-> TRUE, controls |-> cs, highlights |-> done]
          ELSE updateHighlightsFrom([cs EXCEPT ![ids[k]] = r.control], ids, k + 1, es, matrix, Append(done, ids[k]))

\* the first loop of the listener, after the place calls gave the nodes the
\* translations matrix
updateArrows(matrix) == updateArrowsFrom(edges, 1, matrix, <<>>)

\* mutant: the second loop reads the edges as they were before the first loop
updateHighlights_BeforeArrows(a, matrix) ==
  IF a.threw
  THEN [threw |-> TRUE, controls |-> controls, highlights |-> <<>>]
  ELSE updateHighlightsFrom(controls, edgeNodesFrom(1), 1, edges, matrix, <<>>)

\* the second loop of the listener, reached only if the first one ended
\* without an exception: a is the result of the first loop
updateHighlights(a, matrix) ==
  IF a.threw
  THEN [threw |-> TRUE, controls |-> controls, highlights |-> <<>>]
  ELSE updateHighlightsFrom(controls, edgeNodesFrom(1), 1, a.edges, matrix, <<>>)

\* ------------------------------------------------------------------ actions
noStep == [kind |-> "none"]

Init ==
  /\ window \in WindowSizes
  /\ layoutBounds = windowBounds(window)
  /\ resizePending = FALSE
  /\ phase = "assemble"
  /\ nodeMatrix = [n \in Nodes |-> ZERO]
  /\ edges = <<>>
  /\ controls = <<>>
  /\ enteringEdgeNodes = [n \in Nodes |-> <<>>]
  /\ exitingEdgeNodes = [n \in Nodes |-> <<>>]
  /\ enteringEdgesNode = [n \in Nodes |-> emptyContainer]
  /\ exitingEdgesNode = [n \in Nodes |-> emptyContainer]
  /\ focus = 0
  /\ events = 0
  /\ last = noStep

\* new MermaidDirectionalEdgeNode( startNode, endNode, startConnection,
\* endConnection, providedOptions ), pushed on the edges array
Construct(startNode, endNode, startConnection, endConnection, providedOptions) ==
  /\ phase = "assemble"
  /\ Len(edges) < MaxEdges
  /\ LET edge == newEdge(startNode, endNode, startConnection, endConnection, providedOptions)
         h == registerBoth(scene, Len(edges) + 1, edge)
     IN /\ edges' = Append(edges, edge)
        /\ controls' = h.controls
        /\ enteringEdgeNodes' = h.enteringEdgeNodes
        /\ exitingEdgeNodes' = h.exitingEdgeNodes
        /\ enteringEdgesNode' = h.enteringEdgesNode
        /\ exitingEdgesNode' = h.exitingEdgesNode
  /\ last' = [kind |-> "construct", providedOptions |-> providedOptions]
  /\ UNCHANGED <<window, layoutBounds, resizePending, phase, nodeMatrix, focus, events>>

\* one run of the listener linked to layoutBoundsProperty with the bounds b:
\* the place calls, the updateArrow loop, then the updateHighlight loop
RunLayout(b, kind, eventsBefore, resizeCalls) ==
  \E matrix \in {placeFrom(nodeMatrix, 1, centerX(b))} :
    \E a \in {updateArrows(matrix)} :
      \E hl \in {updateHighlights(a, matrix)} :
        /\ nodeMatrix' = matrix
        /\ edges' = a.edges
        /\ controls' = hl.controls
        /\ last' = [kind |-> kind, events |-> eventsBefore, resizeCalls |-> resizeCalls, passes |-> 1,
                    threw |-> hl.threw, failed |-> a.failed,
                    arrows |-> a.arrows, highlights |-> hl.highlights,
                    boundsBefore |-> layoutBounds]
        /\ phase' = IF hl.threw /\ kind = "link" THEN "crashed" ELSE "running"

\* layoutBoundsProperty.link( listener ): the listener runs at once with the
\* current value; an exception ends the module body before the frame callback
\* is installed
Link ==
  /\ phase = "assemble"
  /\ RunLayout(layoutBounds, "link", events, 0)
  /\ UNCHANGED <<window, layoutBounds, resizePending, enteringEdgeNodes, exitingEdgeNodes,
                 enteringEdgesNode, exitingEdgesNode, focus, events>>

\* a resize, orientationchange or visualViewport resize event: the window has
\* the size w, and resizeListener runs
ResizeEvent(w) ==
  /\ phase # "assemble"
  /\ events < MaxEvents
  /\ window' = w
  /\ resizePending' = TRUE
  /\ events' = events + 1
  /\ last' = [kind |-> "event"]
  /\ UNCHANGED <<layoutBounds, phase, nodeMatrix, edges, controls, enteringEdgeNodes,
                 exitingEdgeNodes, enteringEdgesNode, exitingEdgesNode, focus>>

\* mutant: resize() run by every frame, pending or not
Frame_NotLazy ==
  /\ phase = "running"
  /\ resizePending' = FALSE
  /\ layoutBounds' = windowBounds(window)
  /\ events' = 0
  /\ RunLayout(windowBounds(window), "frame", events, 1)
  /\ UNCHANGED <<window, enteringEdgeNodes, exitingEdgeNodes, enteringEdgesNode,
                 exitingEdgesNode, focus>>

\* mutant: resize() sets the layout bounds it already has
Frame_KeepsBounds ==
  /\ phase = "running"
  /\ IF resizePending
     THEN /\ resizePending' = FALSE
          /\ layoutBounds' = layoutBounds
          /\ events' = 0
          /\ RunLayout(layoutBounds, "frame", events, 1)
     ELSE /\ last' = [kind |-> "frame", events |-> events, resizeCalls |-> 0, passes |-> 0,
                      threw |-> FALSE, failed |-> 0, arrows |-> <<>>, highlights |-> <<>>,
                      boundsBefore |-> layoutBounds]
          /\ UNCHANGED <<resizePending, layoutBounds, events, nodeMatrix, edges, controls, phase>>
  /\ UNCHANGED <<window, enteringEdgeNodes, exitingEdgeNodes, enteringEdgesNode,
                 exitingEdgesNode, focus>>

\* the display.updateOnRequestAnimationFrame callback: resize() if a resize is
\* pending; resize() clears the flag, sets the layout bounds from the window
\* and so runs the layout listener
Frame ==
  /\ phase = "running"
  /\ IF resizePending
     THEN /\ resizePending' = FALSE
          /\ layoutBounds' = windowBounds(window)
          /\ events' = 0
          /\ RunLayout(windowBounds(window), "frame", events, 1)
     ELSE /\ last' = [kind |-> "frame", events |-> events, resizeCalls |-> 0, passes |-> 0,
                      threw |-> FALSE, failed |-> 0, arrows |-> <<>>, highlights |-> <<>>,
                      boundsBefore |-> layoutBounds]
          /\ UNCHANGED <<resizePending, layoutBounds, events, nodeMatrix, edges, controls, phase>>
  /\ UNCHANGED <<window, enteringEdgeNodes, exitingEdgeNodes, enteringEdgesNode,
                 exitingEdgesNode, focus>>

\* mutant: every click follows the edge to its end node
clickTarget_AlwaysEndNode(control) == edges[control.edge].endNode

\* the node the click listener of a control focuses: edge.startNode.focus()
\* for an entering control, edge.endNode.focus() for an exiting one
clickTarget(control) ==
  IF control.kind = "entering"
  THEN edges[control.edge].startNode
  ELSE edges[control.edge].endNode

\* a click on the control c: its listener runs
Click(c) ==
  /\ phase = "running"
  /\ focus' = clickTarget(controls[c])
  /\ last' = [kind |-> "click", control |-> c, focused |-> <<clickTarget(controls[c])>>]
  /\ UNCHANGED <<window, layoutBounds, resizePending, phase, nodeMatrix, edges, controls,
                 enteringEdgeNodes, exitingEdgeNodes, enteringEdgesNode, exitingEdgesNode, events>>

\* the edges of the demo's kinds: a labelled edge, a plain edge, an edge with
\* an end offset, an edge with a start tangent distance, and an edge whose
\* start side is none of the four
EdgeStyles ==
  {<<"left", "top", [text |-> "Yes"]>>,
   <<"left", "right", <<>>>>,
   <<"bottom", "top", [endOffset |-> Vector2(Px(-30), 0)]>>,
   <<"left", "top", [text |-> "No", startTangentDistance |-> Px(22)]>>,
   <<"diagonal", "top", <<>>>>}

Next ==
  \/ \E s \in Nodes, e \in Nodes, style \in EdgeStyles : Construct(s, e, style[1], style[2], style[3])
  \/ Link
  \/ \E w \in WindowSizes : ResizeEvent(w)
  \/ Frame
  \/ \E c \in 1..Len(controls) : Click(c)

Spec == Init /\ [][Next]_vars

\* animation frames keep firing: the callback given to
\* display.updateOnRequestAnimationFrame runs again and again once it is
\* installed.  This is weak fairness of the frame that finds a resize pending,
\* WF_vars(resizePending /\ Frame), written out with that action's enabling
\* condition, phase = "running" /\ resizePending.
FramesKeepFiring ==
  \/ []<>(~(phase = "running" /\ resizePending))
  \/ []<><<Frame>>_vars

SpecLive == Init /\ [][Next]_vars /\ FramesKeepFiring

\* ---------------------------------------------------- a single edge, any options
\* the options an edge may be given: any subset of the five keys
OptionKeys == {"text", "startOffset", "endOffset", "startTangentDistance", "endTangentDistance"}

OptionValues ==
  [text |-> "Yes", startOffset |-> Vector2(Px(10), Px(-20)), endOffset |-> Vector2(Px(-30), 0),
   startTangentDistance |-> Px(22), endTangentDistance |-> Px(200)]

EdgeOptions == {[k \in D |-> OptionValues[k]] : D \in SUBSET OptionKeys}

\* the graph with one edge, of any two nodes, any two sides and any options
NextEdge ==
  \/ \E s \in Nodes, e \in Nodes, sc \in Sides, ec \in Sides, o \in EdgeOptions :
       Len(edges) = 0 /\ Construct(s, e, sc, ec, o)
  \/ Link
  \/ \E w \in WindowSizes : ResizeEvent(w)
  \/ Frame

SpecEdge == Init /\ [][NextEdge]_vars

\* ------------------------------------------- the calls of a pass, one by one
\* The two nodes A and B with edges between them; the node boxes are given, and
\* the updateArrow and updateHighlight calls the listener makes for them run as
\* single steps, in any order: an updateHighlight after the updateArrow of its
\* edge.  phase is "stepping" once the boxes are given.
InitCalls ==
  /\ window = <<800, 600>>
  /\ layoutBounds = windowBounds(window)
  /\ resizePending = FALSE
  /\ phase = "assemble"
  /\ nodeMatrix = [n \in BoxNodes |-> ZERO]
  /\ edges = <<>>
  /\ controls = <<>>
  /\ enteringEdgeNodes = [n \in BoxNodes |-> <<>>]
  /\ exitingEdgeNodes = [n \in BoxNodes |-> <<>>]
  /\ enteringEdgesNode = [n \in BoxNodes |-> emptyContainer]
  /\ exitingEdgesNode = [n \in BoxNodes |-> emptyContainer]
  /\ focus = 0
  /\ events = 0
  /\ last = noStep

\* the calls made since the boxes were given: updated and highlighted are the
\* edges and controls whose call has run, edgesBefore and controlsBefore the
\* edges and controls as they were when the boxes were given
callsDone == last.kind \in {"boxes", "updateArrow", "updateHighlight"}

\* the node boxes are given: every node.centerX / node.centerY has been set
GiveBoxes(p) ==
  /\ Len(edges) >= 1
  /\ \/ phase = "assemble"
     \/ callsDone /\ last.highlighted = 1..Len(controls)
  /\ nodeMatrix' = p
  /\ phase' = "stepping"
  /\ last' = [kind |-> "boxes", edge |-> 0, control |-> 0, updated |-> {}, highlighted |-> {},
              edgesBefore |-> edges, controlsBefore |-> controls]
  /\ UNCHANGED <<window, layoutBounds, resizePending, edges, controls, enteringEdgeNodes,
                 exitingEdgeNodes, enteringEdgesNode, exitingEdgesNode, focus, events>>

\* mutant: the call recomputes the arrows of all edges
UpdateArrow_AllEdges(e) ==
  /\ phase = "stepping"
  /\ callsDone
  /\ e \notin last.updated
  /\ \E a \in {updateArrows(nodeMatrix)} : edges' = a.edges
  /\ last' = [last EXCEPT !.kind = "updateArrow", !.edge = e, !.updated = @ \cup {e}]
  /\ UNCHANGED <<window, layoutBounds, resizePending, phase, nodeMatrix, controls, enteringEdgeNodes,
                 exitingEdgeNodes, enteringEdgesNode, exitingEdgesNode, focus, events>>

\* edges[e].updateArrow(), once for the given boxes
UpdateArrow(e) ==
  /\ phase = "stepping"
  /\ callsDone
  /\ e \notin last.updated
  /\ \E r \in {updateArrow(edges[e], nodeMatrix)} :
       /\ ~r.threw
       /\ edges' = [edges EXCEPT ![e] = r.edge]
  /\ last' = [last EXCEPT !.kind = "updateArrow", !.edge = e, !.updated = @ \cup {e}]
  /\ UNCHANGED <<window, layoutBounds, resizePending, phase, nodeMatrix, controls, enteringEdgeNodes,
                 exitingEdgeNodes, enteringEdgesNode, exitingEdgesNode, focus, events>>

\* controls[c].updateHighlight(), once for the given boxes
UpdateHighlight(c) ==
  /\ phase = "stepping"
  /\ callsDone
  /\ controls[c].edge \in last.updated
  /\ c \notin last.highlighted
  /\ \E r \in {updateHighlight(controls[c], edges, nodeMatrix)} :
       /\ ~r.threw
       /\ controls' = [controls EXCEPT ![c] = r.control]
  /\ last' = [last EXCEPT !.kind = "updateHighlight", !.control = c, !.highlighted = @ \cup {c}]
  /\ UNCHANGED <<window, layoutBounds, resizePending, phase, nodeMatrix, edges, enteringEdgeNodes,
                 exitingEdgeNodes, enteringEdgesNode, exitingEdgesNode, focus, events>>

\* the edges between A and B: a plain edge from the bottom to the top, a
\* labelled one, one with an end offset and one with tangent distances
CallStyles ==
  {<<"bottom", "top", <<>>>>,
   <<"right", "left", [text |-> "Yes"]>>,
   <<"bottom", "left", [endOffset |-> Vector2(Px(-30), 0)]>>,
   <<"top", "right", [text |-> "No", startTangentDistance |-> Px(22), endTangentDistance |-> Px(200)]>>}

NextCalls ==
  \/ \E s \in BoxNodes, e \in BoxNodes, style \in CallStyles :
       s # e /\ Construct(s, e, style[1], style[2], style[3])
  \/ \E p \in BoxPlacements : GiveBoxes(p)
  \/ \E e \in 1..Len(edges) : UpdateArrow(e)
  \/ \E c \in 1..Len(controls) : UpdateHighlight(c)

SpecCalls == InitCalls /\ [][NextCalls]_vars

\* ------------------------------------- updateArrow over the offset primitive
\* the numbers of segments the offset primitive may return for one side
SegmentCounts == 1..(StrokeSegments + 1)

\* edges[e].updateArrow() for the given boxes, the offset primitive returning
\* left segments for strokeLeft and right segments for strokeRight
UpdateArrowWith(e, left, right) ==
  /\ phase = "stepping"
  /\ \E r \in {updateArrowWith(edges[e], nodeMatrix, left, right)} :
       /\ edges' = [edges EXCEPT ![e] = r.edge]
       /\ last' = [kind |-> "updateArrowWith", edge |-> e, left |-> left, right |-> right, threw |-> r.threw]
  /\ UNCHANGED <<window, layoutBounds, resizePending, phase, nodeMatrix, controls, enteringEdgeNodes,
                 exitingEdgeNodes, enteringEdgesNode, exitingEdgesNode, focus, events>>

NextOutline ==
  \/ \E s \in BoxNodes, e \in BoxNodes, style \in CallStyles :
       s # e /\ Len(edges) = 0 /\ Construct(s, e, style[1], style[2], style[3])
  \/ \E p \in BoxPlacements : phase = "assemble" /\ GiveBoxes(p)
  \/ \E e \in 1..Len(edges), left \in SegmentCounts, right \in SegmentCounts : UpdateArrowWith(e, left, right)

SpecOutline == InitCalls /\ [][NextOutline]_vars

\* ------------------------------------------------------------------ claims
\* the ids of the controls of the kind k that the node n holds for the edge e
HeldControls(k, n, e) ==
  LET ids == IF k = "entering" THEN enteringEdgeNodes[n] ELSE exitingEdgeNodes[n]
  IN {j \in 1..Len(ids) : controls[ids[j]].kind = k /\ controls[ids[j]].edge = e}

\* the control c's focusHighlight and its edge's combined shape coincide in the
\* global frame
HighlightCoincides(c) ==
  /\ controls[c].focusHighlight # None
  /\ edges[controls[c].edge].arrow # None
  /\ transformed(controls[c].focusHighlight[1], nodeMatrix[controls[c].node])
       = transformed(getArrowShape(edges[controls[c].edge]).shape, ZERO)

\* C1: after every completed layout pass, every edge has an exiting control
\* under its start node and an entering control under its end node, and the
\* focusHighlight of each control of the edge, mapped through the control's
\* local-to-global transform, equals the edge's combined shape mapped through
\* the edge's local-to-global transform.
C1_HighlightMatchesEdge ==
  (phase = "running") =>
    /\ \A e \in 1..Len(edges) :
         /\ HeldControls("exiting", edges[e].startNode, e) # {}
         /\ HeldControls("entering", edges[e].endNode, e) # {}
    /\ \A c \in 1..Len(controls) : HighlightCoincides(c)

\* C1 witness: a frame's layout pass for a changed window moved the nodes, two
\* edges share a node, one of them carries a label, and the highlights are set.
C1_Witness ==
  /\ phase = "running"
  /\ last.kind = "frame"
  /\ last.passes = 1
  /\ last.boundsBefore # layoutBounds
  /\ Len(edges) = 2
  /\ edges[1].startNode = edges[2].startNode
  /\ edges[1].endNode # edges[2].endNode
  /\ edges[1].text # null
  /\ \A c \in 1..Len(controls) : controls[c].focusHighlight # None

\* the midpoint of the side of the box b
SideMidpoint(b, side) ==
  CASE side = "top" -> <<(b.minX + b.maxX) \div 2, b.minY>>
    [] side = "bottom" -> <<(b.minX + b.maxX) \div 2, b.maxY>>
    [] side = "left" -> <<b.minX, (b.minY + b.maxY) \div 2>>
    [] side = "right" -> <<b.maxX, (b.minY + b.maxY) \div 2>>

\* the outward unit tangent of a side
SideTangent(side) ==
  CASE side = "top" -> <<0, -1>>
    [] side = "bottom" -> <<0, 1>>
    [] side = "left" -> <<-1, 0>>
    [] side = "right" -> <<1, 0>>

\* the current bounding box of the node n
NodeBox(n) ==
  [minX |-> localBounds(n).minX + nodeMatrix[n][1], minY |-> localBounds(n).minY + nodeMatrix[n][2],
   maxX |-> localBounds(n).maxX + nodeMatrix[n][1], maxY |-> localBounds(n).maxY + nodeMatrix[n][2]]

\* the true end point of the edge: endAttachment + endOffset
TruePoint(edge, which) ==
  IF which = "start"
  THEN plus(SideMidpoint(NodeBox(edge.startNode), edge.startConnection), edge.startOffset)
  ELSE plus(SideMidpoint(NodeBox(edge.endNode), edge.endConnection), edge.endOffset)

\* the four control points the claims state for the centerline of the edge
ClaimedCubic(edge) ==
  LET curveStart == TruePoint(edge, "start")
      curveEnd == plus(TruePoint(edge, "end"), timesScalar(SideTangent(edge.endConnection), 15 * 16))
  IN [start |-> curveStart,
      control1 |-> plus(curveStart, timesScalar(SideTangent(edge.startConnection), edge.startTangentDistance)),
      control2 |-> plus(curveEnd, timesScalar(SideTangent(edge.endConnection), edge.endTangentDistance)),
      end |-> curveEnd]

\* the one subpath of the edge's arrow outline
Outline(edge) == CHOOSE sp \in edge.arrow[1] : TRUE

\* the edges whose updateArrow has run
Drawn == {e \in 1..Len(edges) : edges[e].arrow # None}

\* C2: after updateArrow the outline has the tip vertex exactly at
\* endAttachment + endOffset, where a line segment from one wing ends and the
\* line segment to the other wing starts, and the tip is not the extended
\* centerline end point.
C2_TipExact ==
  \A e \in Drawn :
    LET sp == Outline(edges[e])
        tip == TruePoint(edges[e], "end")
    IN /\ Cardinality(edges[e].arrow[1]) = 1
       /\ \E k \in 1..(Len(sp) - 1) :
            /\ sp[k].end = tip
            /\ sp[k + 1].start = tip
            /\ Len(sp[k].start) = 2
            /\ Len(sp[k + 1].end) = 2
            /\ sp[k].start # sp[k + 1].end
       /\ tip # ClaimedCubic(edges[e]).end

\* C2 witness: an edge with an end offset has been drawn after a layout pass.
C2_Witness ==
  \E e \in Drawn : edges[e].endOffset # ZERO /\ phase = "running"

\* C3: updateArrow builds the centerline cubic from curveStart = startAttachment
\* + startOffset, curveEnd = endAttachment + endOffset + endTangent * 15,
\* control1 = curveStart + startTangent * startTangentDistance and control2 =
\* curveEnd + endTangent * endTangentDistance (read off the two ends of the
\* outline's left boundary, which carry the curve's end points and end
\* tangents), and the constructor gives an omitted option its default: zero
\* offsets and tangent distances of 50.
C3_CenterlineCubic ==
  /\ \A e \in Drawn :
       LET sp == Outline(edges[e])
           c == ClaimedCubic(edges[e])
           n == StrokeSegments
       IN /\ sp[1].start = <<c.start[1], c.start[2],
                             n * n * (c.control1[1] - c.start[1]), n * n * (c.control1[2] - c.start[2]), -16>>
          /\ sp[n].end = <<c.end[1], c.end[2],
                           n * n * (c.end[1] - c.control2[1]), n * n * (c.end[2] - c.control2[2]), -16>>
  /\ (last.kind = "construct") =>
       LET o == last.providedOptions
           edge == edges[Len(edges)]
       IN /\ edge.startOffset = IF "startOffset" \in DOMAIN o THEN o.startOffset ELSE <<0, 0>>
          /\ edge.endOffset = IF "endOffset" \in DOMAIN o THEN o.endOffset ELSE <<0, 0>>
          /\ edge.startTangentDistance = IF "startTangentDistance" \in DOMAIN o THEN o.startTangentDistance ELSE 50 * 16
          /\ edge.endTangentDistance = IF "endTangentDistance" \in DOMAIN o THEN o.endTangentDistance ELSE 50 * 16

\* C3 witness: an edge constructed with no tangent distances and no offsets,
\* and so with the defaults, has been drawn.
C3_Witness ==
  \E e \in Drawn :
    /\ edges[e].startTangentDistance = 50 * 16
    /\ edges[e].endTangentDistance = 50 * 16
    /\ edges[e].startOffset = <<0, 0>>
    /\ edges[e].startConnection = "bottom"
    /\ edges[e].endConnection = "left"

\* C4: for every node and side, getAttachmentPoint returns the midpoint of that
\* side of the node's current bounding box, and the side's tangent in
\* updateArrow is a unit vector pointing out of the box.
C4_AttachmentAndTangent ==
  \A n \in Nodes, side \in Sides :
    LET b == NodeBox(n)
        r == getAttachmentPoint(nodeMatrix, n, side)
        t == tangentMap(side)
    IN /\ ~r.threw
       /\ r.point = SideMidpoint(b, side)
       /\ b.minX < b.maxX /\ b.minY < b.maxY
       /\ t = SideTangent(side)
       /\ t[1] * t[1] + t[2] * t[2] = 1
       /\ t[1] * ((b.minX + b.maxX) \div 2 - r.point[1]) + t[2] * ((b.minY + b.maxY) \div 2 - r.point[2]) < 0

\* C4 witness: the nodes have been placed and an edge between two of them has
\* been drawn from the attachment points.
C4_Witness ==
  /\ phase = "running"
  /\ \A n \in Nodes : nodeMatrix[n] # ZERO
  /\ \E e \in Drawn :
       /\ edges[e].startNode # edges[e].endNode
       /\ Outline(edges[e])[1].start[1] = SideMidpoint(NodeBox(edges[e].startNode), edges[e].startConnection)[1] + edges[e].startOffset[1]

\* C5: a layout pass run for the viewport bounds of the pass before it leaves
\* every node position, every edge outline and label position and every
\* highlight shape as that pass left them.
C5_LayoutIdempotent ==
  [][(last'.kind = "frame" /\ last'.passes = 1 /\ layoutBounds' = layoutBounds)
       => (nodeMatrix' = nodeMatrix /\ edges' = edges /\ controls' = controls)]_vars

\* C5 witness: a frame ran the layout pass for unchanged bounds on a graph with
\* a labelled edge and a plain one, all drawn and highlighted.
C5_Witness ==
  /\ last.kind = "frame"
  /\ last.passes = 1
  /\ last.boundsBefore = layoutBounds
  /\ Len(edges) = 2
  /\ Drawn = {1, 2}
  /\ edges[1].textNode # None
  /\ edges[2].textNode = None
  /\ \A c \in 1..Len(controls) : controls[c].focusHighlight # None

\* the elements of a sequence
Range(seq) == {seq[k] : k \in 1..Len(seq)}

\* the edge's two sides are among the four recognized ones
ValidSides(edge) == edge.startConnection \in Sides /\ edge.endConnection \in Sides

\* C6: a layout pass in which one edge fails with an invalid side still
\* recomputes the arrow of every other edge and the highlight of every control
\* of the other edges.
C6_FailureIsolated ==
  (last.kind \in {"link", "frame"} /\ last.passes = 1) =>
    \A e \in 1..Len(edges) :
      ValidSides(edges[e]) =>
        /\ e \in Range(last.arrows)
        /\ \A c \in 1..Len(controls) : controls[c].edge = e => c \in Range(last.highlights)

\* the number of times x occurs in a sequence
Occurrences(seq, x) == Cardinality({k \in 1..Len(seq) : seq[k] = x})

\* the controls of the kind k that reference the edge e
ControlsOf(k, e) == {c \in 1..Len(controls) : controls[c].kind = k /\ controls[c].edge = e}

\* C7: every edge has exactly two controls: one ExitingEdgeNode, held once in
\* its startNode's exitingEdgeNodes and nowhere else, and one EnteringEdgeNode,
\* held once in its endNode's enteringEdgeNodes and nowhere else; every node
\* holds as many entering (exiting) controls as edges end (start) at it.
C7_TwoControlsPerEdge ==
  /\ Len(controls) = 2 * Len(edges)
  /\ \A e \in 1..Len(edges) :
       /\ Cardinality(ControlsOf("exiting", e)) = 1
       /\ Cardinality(ControlsOf("entering", e)) = 1
       /\ \A c \in ControlsOf("exiting", e) :
            /\ controls[c].node = edges[e].startNode
            /\ \A n \in Nodes :
                 /\ Occurrences(exitingEdgeNodes[n], c) = (IF n = edges[e].startNode THEN 1 ELSE 0)
                 /\ Occurrences(enteringEdgeNodes[n], c) = 0
       /\ \A c \in ControlsOf("entering", e) :
            /\ controls[c].node = edges[e].endNode
            /\ \A n \in Nodes :
                 /\ Occurrences(enteringEdgeNodes[n], c) = (IF n = edges[e].endNode THEN 1 ELSE 0)
                 /\ Occurrences(exitingEdgeNodes[n], c) = 0
  /\ \A n \in Nodes :
       /\ Len(enteringEdgeNodes[n]) = Cardinality({e \in 1..Len(edges) : edges[e].endNode = n})
       /\ Len(exitingEdgeNodes[n]) = Cardinality({e \in 1..Len(edges) : edges[e].startNode = n})

\* C7 witness: two edges were constructed that start at the same node, one of
\* them ending at the node it starts at.
C7_Witness ==
  /\ Len(edges) = 2
  /\ edges[1].startNode = edges[1].endNode
  /\ edges[2].startNode = edges[1].startNode
  /\ edges[2].endNode # edges[2].startNode

\* C8: a click on an exiting control focuses its edge's endNode, a click on an
\* entering control its edge's startNode; that node is the one the control's
\* help text names, and it is the only node focused by the click.
C8_ClickMovesFocus ==
  (last.kind = "click") =>
    LET c == controls[last.control]
        target == IF c.kind = "exiting" THEN edges[c.edge].endNode ELSE edges[c.edge].startNode
    IN /\ focus = target
       /\ last.focused = <<target>>
       /\ c.accessibleHelpText[4] = NodeText[target]
       /\ \A n \in Nodes \ {target} : c.accessibleHelpText[4] # NodeText[n]

\* C8 witness: an entering control of an edge between two different nodes was
\* clicked and the edge's start node holds the focus.
C8_Witness ==
  /\ last.kind = "click"
  /\ controls[last.control].kind = "entering"
  /\ edges[controls[last.control].edge].startNode # edges[controls[last.control].edge].endNode
  /\ focus = edges[controls[last.control].edge].startNode

\* C9: a frame that follows one or more resize events since the last resize()
\* call runs resize() once and so one layout pass; a frame that follows none
\* runs no resize() and no layout pass.
C9_OneResizePerFrame ==
  (last.kind = "frame") =>
    /\ (last.events >= 1) => (last.resizeCalls = 1 /\ last.passes = 1)
    /\ (last.events = 0) => (last.resizeCalls = 0 /\ last.passes = 0)

\* C9 witness: a frame followed two resize events and ran resize() once.
C9_Witness ==
  /\ last.kind = "frame"
  /\ last.events = 2
  /\ last.resizeCalls = 1
  /\ last.passes = 1
  /\ events = 0
  /\ ~resizePending

\* the current rectangle of the edge's label Panel
PanelBox(edge) ==
  [minX |-> edge.textNode[1].background.minX + edge.textNode[1].matrix[1],
   minY |-> edge.textNode[1].background.minY + edge.textNode[1].matrix[2],
   maxX |-> edge.textNode[1].background.maxX + edge.textNode[1].matrix[1],
   maxY |-> edge.textNode[1].background.maxY + edge.textNode[1].matrix[2]]

\* C10: for a drawn edge without a label getArrowShape returns exactly the
\* arrow outline; for a drawn edge with a label it returns the union of the
\* outline with the label panel's rectangle, and the panel's centre is the
\* centerline's point at t = 0.5: (P0 + 3*P1 + 3*P2 + P3) / 8.
C10_CombinedShape ==
  \A e \in Drawn :
    LET edge == edges[e]
        r == getArrowShape(edge)
        c == ClaimedCubic(edge)
    IN /\ ~r.threw
       /\ (edge.text = null) => (edge.textNode = None /\ r.shape = edge.arrow[1])
       /\ (edge.text # null) =>
            /\ edge.textNode # None
            /\ r.shape = edge.arrow[1] \cup boundsShape(PanelBox(edge))
            /\ Cardinality(r.shape) = 2
            /\ 4 * (PanelBox(edge).minX + PanelBox(edge).maxX) = c.start[1] + 3 * c.control1[1] + 3 * c.control2[1] + c.end[1]
            /\ 4 * (PanelBox(edge).minY + PanelBox(edge).maxY) = c.start[2] + 3 * c.control1[2] + 3 * c.control2[2] + c.end[2]

\* C10 witness: a labelled edge with its own tangent distances and offsets has
\* been drawn, and its label sits off the straight line between its two ends.
C10_Witness ==
  \E e \in Drawn :
    /\ edges[e].text # null
    /\ edges[e].startTangentDistance # edges[e].endTangentDistance
    /\ edges[e].endOffset # ZERO
    /\ 2 * (PanelBox(edges[e]).minX + PanelBox(edges[e]).maxX) # TruePoint(edges[e], "start")[1] + TruePoint(edges[e], "end")[1]

\* the side's tangent turned by a quarter: (x, y) to (y, -x)
SidePerp(side) ==
  CASE side = "top" -> <<-1, 0>>
    [] side = "bottom" -> <<1, 0>>
    [] side = "left" -> <<0, 1>>
    [] side = "right" -> <<0, -1>>

\* the outline sp has the tip, with the wing left before it and the wing right
\* after it
WingsAround(sp, tip, left, right) ==
  \E k \in 1..(Len(sp) - 1) :
    /\ sp[k].end = tip
    /\ sp[k + 1].start = tip
    /\ sp[k].start = left
    /\ sp[k + 1].end = right

\* C11 as stated: for every edge, the two arrowhead wing points of the outline
\* are the true end point, endAttachment + endOffset, plus and minus
\* perpendicular(endTangent) * 6.
C11_WingsAtTrueEnd ==
  \A e \in Drawn :
    LET tip == TruePoint(edges[e], "end")
        half == timesScalar(SidePerp(edges[e].endConnection), 6 * 16)
    IN \/ WingsAround(Outline(edges[e]), tip, plus(tip, half), minus(tip, half))
       \/ WingsAround(Outline(edges[e]), tip, minus(tip, half), plus(tip, half))

\* C11, amended: for every edge, the two arrowhead wing points of the outline
\* are the end of the extended centerline, endAttachment + endOffset +
\* endTangent * 15, plus (the wing before the tip) and minus (the wing after
\* it) perpendicular(endTangent) * 6; the tip between them is the true end point.
C11_WingsAtCurveEnd ==
  \A e \in Drawn :
    LET tip == TruePoint(edges[e], "end")
        base == plus(tip, timesScalar(SideTangent(edges[e].endConnection), 15 * 16))
        half == timesScalar(SidePerp(edges[e].endConnection), 6 * 16)
    IN WingsAround(Outline(edges[e]), tip, plus(base, half), minus(base, half))

\* C11 witness: an edge that ends on a left side, with an end offset, has been
\* drawn, and its two wings lie on a vertical line 15 pixels left of the tip.
C11_Witness ==
  \E e \in Drawn :
    /\ edges[e].endConnection = "left"
    /\ edges[e].endOffset # ZERO
    /\ \E k \in 1..(Len(Outline(edges[e])) - 1) :
         /\ Outline(edges[e])[k].end = TruePoint(edges[e], "end")
         /\ Outline(edges[e])[k].start[1] = TruePoint(edges[e], "end")[1] - 15 * 16
         /\ Outline(edges[e])[k + 1].end[1] = Outline(edges[e])[k].start[1]
         /\ Outline(edges[e])[k + 1].end[2] # Outline(edges[e])[k].start[2]

\* a box in pixels
PixelBox(minX, minY, maxX, maxY) ==
  [minX |-> minX * 16, minY |-> minY * 16, maxX |-> maxX * 16, maxY |-> maxY * 16]

\* a point in pixels
PixelPoint(x, y) == <<x * 16, y * 16>>

\* Scenario A: the edge e runs from the bottom of A, box (0,0)-(100,40), to the
\* top of B, box (0,200)-(100,240), with no offsets and tangent distances 50/50,
\* and its updateArrow has run for these boxes
ScenarioA(e) ==
  /\ callsDone
  /\ e \in last.updated
  /\ edges[e].startNode = nodeA
  /\ edges[e].endNode = nodeB
  /\ edges[e].startConnection = "bottom"
  /\ edges[e].endConnection = "top"
  /\ edges[e].startOffset = <<0, 0>>
  /\ edges[e].endOffset = <<0, 0>>
  /\ edges[e].startTangentDistance = 50 * 16
  /\ edges[e].endTangentDistance = 50 * 16
  /\ NodeBox(nodeA) = PixelBox(0, 0, 100, 40)
  /\ NodeBox(nodeB) = PixelBox(0, 200, 100, 240)

\* the left boundary of the outline sp is the offset curve of the cubic with
\* the control points p0, p1, p2, p3: it starts beside p0 with the tangent
\* 3 * (p1 - p0) and ends beside p3 with the tangent 3 * (p3 - p2)
CenterlineIs(sp, p0, p1, p2, p3) ==
  LET n == StrokeSegments
  IN /\ sp[1].start = <<p0[1], p0[2], n * n * (p1[1] - p0[1]), n * n * (p1[2] - p0[2]), -16>>
     /\ sp[n].end = <<p3[1], p3[2], n * n * (p3[1] - p2[1]), n * n * (p3[2] - p2[2]), -16>>

\* the outline sp has the vertex p where one line ends and the next starts
TipIs(sp, p) == \E k \in 1..(Len(sp) - 1) : sp[k].end = p /\ sp[k + 1].start = p

\* C12 as stated: in Scenario A updateArrow yields the centerline control
\* points start (50,40), control1 (50,90), control2 (50,150) and end (50,185),
\* and the outline's tip vertex is (50,200).
C12_ScenarioA_Control2At150 ==
  \A e \in 1..Len(edges) :
    ScenarioA(e) =>
      /\ CenterlineIs(Outline(edges[e]), PixelPoint(50, 40), PixelPoint(50, 90),
                      PixelPoint(50, 150), PixelPoint(50, 185))
      /\ TipIs(Outline(edges[e]), PixelPoint(50, 200))

\* C12, amended: in Scenario A updateArrow yields the centerline control points
\* start (50,40), control1 (50,90), control2 (50,135) and end (50,185), and the
\* outline's tip vertex is (50,200).
C12_ScenarioA ==
  \A e \in 1..Len(edges) :
    ScenarioA(e) =>
      /\ CenterlineIs(Outline(edges[e]), PixelPoint(50, 40), PixelPoint(50, 90),
                      PixelPoint(50, 135), PixelPoint(50, 185))
      /\ TipIs(Outline(edges[e]), PixelPoint(50, 200))

\* C12 witness: the edge of Scenario A has been drawn for the scenario's boxes.
C12_Witness ==
  \E e \in 1..Len(edges) : ScenarioA(e) /\ edges[e].arrow # None /\ edges[e].text = null

\* the controls of A and B in the order the listener's second loop visits them
BoxControlIds ==
  enteringEdgeNodes[nodeA] \o exitingEdgeNodes[nodeA] \o enteringEdgeNodes[nodeB] \o exitingEdgeNodes[nodeB]

\* what the listener's first loop, run in the order of the edges array, makes
\* of the edges as they were when the boxes were given
InOrderArrows == updateArrowsFrom(last.edgesBefore, 1, nodeMatrix, <<>>)

\* what the listener's second loop, run in its order after the first loop gave
\* the edges es, makes of the controls as they were when the boxes were given
InOrderHighlights(es) ==
  updateHighlightsFrom(last.controlsBefore, BoxControlIds, 1, es, nodeMatrix, <<>>)

\* every edge whose updateArrow has run, in whatever order, has the geometry
\* the in-order loop gives it and every other edge is as it was; so for the
\* controls and their highlights
SameAsInOrder ==
  \E a \in {InOrderArrows} :
    \E h \in {InOrderHighlights(a.edges)} :
      /\ ~a.threw
      /\ ~h.threw
      /\ \A e \in 1..Len(edges) :
           edges[e] = IF e \in last.updated THEN a.edges[e] ELSE last.edgesBefore[e]
      /\ \A c \in 1..Len(controls) :
           controls[c] = IF c \in last.highlighted THEN h.controls[c] ELSE last.controlsBefore[c]

\* the step changed, of the edges, only the arrow shape and the label position
\* of the edge e, and no node box and no control
OnlyOwnEdge(e) ==
  /\ nodeMatrix' = nodeMatrix
  /\ \A n \in BoxNodes : NodeBox(n)' = NodeBox(n)
  /\ controls' = controls
  /\ Len(edges') = Len(edges)
  /\ \A f \in 1..Len(edges) : f # e => edges'[f] = edges[f]
  /\ edges'[e] = [edges[e] EXCEPT !.arrow = edges'[e].arrow, !.textNode = edges'[e].textNode]
  /\ (edges[e].textNode = None) = (edges'[e].textNode = None)
  /\ edges[e].textNode # None => edges'[e].textNode[1].background = edges[e].textNode[1].background

\* C13: with the node boxes fixed, an updateArrow call changes only its own
\* edge's arrow shape and label position and leaves every node box, every other
\* edge and every control as they were; and after the updateArrow calls have
\* run in any order, each followed at any later time by the updateHighlight
\* calls of its edge's controls, every edge has the geometry and every control
\* the highlight that the listener's in-order loops give them.
C13_EdgesIndependent ==
  /\ [][last'.kind = "updateArrow" => OnlyOwnEdge(last'.edge)]_vars
  /\ [](callsDone => SameAsInOrder)

\* C13 witness: of two edges drawn before for other boxes, the second was
\* updated first and a control of it highlighted, and then the first edge was
\* updated and its shape changed.
C13_Witness ==
  /\ last.kind = "updateArrow"
  /\ Len(edges) = 2
  /\ last.edge = 1
  /\ last.updated = {1, 2}
  /\ last.highlighted # {}
  /\ last.edgesBefore[1].arrow # None
  /\ edges[1].arrow # last.edgesBefore[1].arrow
  /\ edges[1].textNode # None

\* the outline sp is one closed, contiguous contour of left left-boundary
\* segments, the lines to the left wing, to the tip, to the right wing and to
\* the first right-boundary segment's start, right right-boundary segments and
\* the closing line, for the edge with the true end point tip
ClosedContour(sp, left, right, tip) ==
  /\ Len(sp) = left + right + 5
  /\ \A k \in 1..(Len(sp) - 1) : sp[k].end = sp[k + 1].start
  /\ sp[Len(sp)].end = sp[1].start
  /\ \A k \in 1..left : Len(sp[k].start) = 5 /\ sp[k].start[5] < 0 /\ sp[k].end[5] < 0
  /\ sp[left + 2].end = tip
  /\ Len(sp[left + 1].end) = 2
  /\ Len(sp[left + 3].end) = 2
  /\ \A k \in (left + 5)..(left + right + 4) : Len(sp[k].start) = 5 /\ sp[k].start[5] > 0 /\ sp[k].end[5] > 0
  /\ sp[left + right + 5].start = sp[left + right + 4].end
  /\ sp[left + right + 5].end = sp[1].start

\* C14: updateArrow builds one closed, contiguous contour - left boundary, line
\* to the left wing, to the tip, to the right wing, to the first right-boundary
\* segment's start, right boundary, closing line from the end of the last
\* right-boundary segment to the first left-boundary segment's start - for any
\* numbers of segments the offset primitive returns for the two sides, equal
\* or not.
C14_ContourClosed ==
  (last.kind = "updateArrowWith") =>
    /\ ~last.threw
    /\ ClosedContour(Outline(edges[last.edge]), last.left, last.right, TruePoint(edges[last.edge], "end"))

\* the same for equal numbers of segments on the two sides only
ContourClosedForEqualCounts ==
  (last.kind = "updateArrowWith" /\ last.left = last.right) =>
    /\ ~last.threw
    /\ ClosedContour(Outline(edges[last.edge]), last.left, last.right, TruePoint(edges[last.edge], "end"))

\* the closing line of a contour with more right-boundary than left-boundary
\* segments starts inside the right boundary
ClosingLineInsideRightBoundary ==
  /\ last.kind = "updateArrowWith"
  /\ last.left < last.right
  /\ ~last.threw
  /\ LET sp == Outline(edges[last.edge])
     IN /\ sp[Len(sp)].start = sp[last.left + 4 + last.left].end
        /\ sp[Len(sp)].start # sp[Len(sp) - 1].end

\* a frame has run resize() and the layout pass for the window as it is
LayoutForWindow ==
  /\ last.kind = "frame"
  /\ last.resizeCalls = 1
  /\ last.passes = 1
  /\ ~resizePending
  /\ layoutBounds = windowBounds(window)

\* C15: a resize, orientationchange or visualViewport resize event sets
\* resizePending; the flag stays set until a frame runs resize(), which sets
\* the layout bounds from the window as it then is and runs the layout pass;
\* and while the frame callback keeps firing, every pending resize is
\* eventually followed by such a frame.
C15_ResizeLeadsToLayout ==
  /\ [][/\ last'.kind = "event" => resizePending'
        /\ (resizePending /\ ~resizePending') => LayoutForWindow']_vars
  /\ (phase = "running" /\ resizePending) ~> LayoutForWindow

\* C15 witness: after a resize event that changed the window, a frame has run
\* the layout pass for the new window size on a graph with a drawn edge.
C15_Witness ==
  /\ LayoutForWindow
  /\ last.events >= 1
  /\ last.boundsBefore # layoutBounds
  /\ Drawn # {}

\* the step was a layout pass over edges whose sides are all among the four
PassOverValidEdges ==
  /\ last'.kind \in {"link", "frame"}
  /\ last'.passes = 1
  /\ \A e \in 1..Len(edges) : ValidSides(edges[e])

\* the pass created, removed and re-registered nothing: the same edges, with
\* at most a new arrow shape and label position, the same controls, with at
\* most a new highlight, in the same lists and containers
SameObjects ==
  /\ Len(edges') = Len(edges)
  /\ \A e \in 1..Len(edges) :
       edges'[e] = [edges[e] EXCEPT !.arrow = edges'[e].arrow, !.textNode = edges'[e].textNode]
  /\ Len(controls') = Len(controls)
  /\ \A c \in 1..Len(controls) :
       controls'[c] = [controls[c] EXCEPT !.focusHighlight = controls'[c].focusHighlight]
  /\ enteringEdgeNodes' = enteringEdgeNodes
  /\ exitingEdgeNodes' = exitingEdgeNodes
  /\ enteringEdgesNode' = enteringEdgesNode
  /\ exitingEdgesNode' = exitingEdgesNode

\* C16: every layout pass ends after one updateArrow call per edge and one
\* updateHighlight call per control (the edges' sides being among the four the
\* constructor's type allows), and it starts no further pass: it is the one
\* pass of its step, the layout bounds and resizePending are as they were when
\* the listener was called (after a frame's resize(): the window's bounds, and
\* no resize pending), and no node, edge or control was created, removed or
\* re-registered.
C16_PassOnceEach ==
  [][PassOverValidEdges =>
       /\ ~last'.threw
       /\ Len(last'.arrows) = Len(edges)
       /\ \A e \in 1..Len(edges) : Occurrences(last'.arrows, e) = 1
       /\ Len(last'.highlights) = Len(controls)
       /\ \A c \in 1..Len(controls) : Occurrences(last'.highlights, c) = 1
       /\ last'.resizeCalls = (IF last'.kind = "frame" THEN 1 ELSE 0)
       /\ layoutBounds' = (IF last'.kind = "frame" THEN windowBounds(window) ELSE layoutBounds)
       /\ resizePending' = (IF last'.kind = "frame" THEN FALSE ELSE resizePending)
       /\ window' = window
       /\ SameObjects]_vars

\* C16 witness: a frame's pass over two edges, the second starting where the
\* first ends, made two updateArrow and four updateHighlight calls.
C16_Witness ==
  /\ last.kind = "frame"
  /\ last.passes = 1
  /\ ~last.threw
  /\ Len(edges) = 2
  /\ edges[1].endNode = edges[2].startNode
  /\ edges[1].startNode # edges[1].endNode
  /\ Len(last.arrows) = 2
  /\ Len(last.highlights) = 4

\* every node's box is centred where the place calls put it for the layout
\* bounds: centerX + col * 200, 100 + row * 120
NodesPlaced ==
  \A n \in Nodes :
    /\ (NodeBox(n).minX + NodeBox(n).maxX) \div 2
         = (layoutBounds.minX + layoutBounds.maxX) \div 2 + (GridPos[n][1] * 200 * 16) \div 2
    /\ (NodeBox(n).minY + NodeBox(n).maxY) \div 2 = 100 * 16 + (GridPos[n][2] * 120 * 16) \div 2

\* C17: in every layout pass - also one that an exception ends - an
\* updateHighlight call runs only after the node positions of the pass were
\* set and the updateArrow of every edge, its own among them, has run in that
\* pass: the highlight it sets is the edge's shape of this pass under the
\* transforms of this pass, and no call reads an arrow shape that is null (an
\* exception of a pass is one of updateArrow, before any highlight).
C17_HighlightAfterArrow ==
  (last.kind \in {"link", "frame"} /\ last.passes = 1) =>
    /\ NodesPlaced
    /\ last.highlights # <<>> => Range(last.arrows) = 1..Len(edges)
    /\ \A c \in Range(last.highlights) :
         /\ controls[c].edge \in Range(last.arrows)
         /\ HighlightCoincides(c)
    /\ last.threw => (last.failed # 0 /\ last.highlights = <<>>)

\* C17 witness: at link - every arrow Path still holding its null shape - the
\* pass drew two edges, one with a label, and set the highlights of all four
\* controls.
C17_Witness ==
  /\ last.kind = "link"
  /\ last.passes = 1
  /\ Len(edges) = 2
  /\ Len(last.highlights) = 4
  /\ edges[2].textNode # None
  /\ \A n \in Nodes : nodeMatrix[n] # ZERO

\* the controls registered on node n as entering (exiting) ones, in the order
\* of their registration
RegisteredControls(n, kind) ==
  SelectSeq([c \in 1..Len(controls) |-> c],
            LAMBDA c : controls[c].node = n /\ controls[c].kind = kind)

\* a container exposed as a 'ul' list under its heading, or not exposed at all
ExposedAsList(container, heading, n) ==
  /\ container.tagName = "ul"
  /\ container.accessibleHeading = Some(<<heading, NodeText[n]>>)

NotExposed(container) ==
  /\ container.tagName = null
  /\ container.accessibleHeading = None

ContainerListsRegistered(container, array, heading, kind, n) ==
  /\ IF Len(RegisteredControls(n, kind)) >= 1
     THEN ExposedAsList(container, heading, n)
     ELSE NotExposed(container)
  /\ container.children = RegisteredControls(n, kind)
  /\ container.children = array

\* a container that already has a child keeps its heading and tag
HeadingKept(before, after) ==
  Len(before.children) >= 1 =>
    /\ after.accessibleHeading = before.accessibleHeading
    /\ after.tagName = before.tagName

\* C18: after any sequence of registrations, the entering (exiting) container
\* of a node is a 'ul' list headed "Edges entering <text>" ("Edges exiting
\* <text>") exactly when an entering (exiting) edge was registered on the
\* node; a later registration leaves heading and tag as the first one set
\* them; the container's children are the registered controls in registration
\* order and equal the enteringEdgeNodes (exitingEdgeNodes) array.
C18_ContainersListRegistered ==
  /\ [](\A n \in Nodes :
          /\ ContainerListsRegistered(enteringEdgesNode[n], enteringEdgeNodes[n],
                                      "Edges entering", "entering", n)
          /\ ContainerListsRegistered(exitingEdgesNode[n], exitingEdgeNodes[n],
                                      "Edges exiting", "exiting", n))
  /\ [][\A n \in Nodes :
          /\ HeadingKept(enteringEdgesNode[n], enteringEdgesNode'[n])
          /\ HeadingKept(exitingEdgesNode[n], exitingEdgesNode'[n])]_vars

\* C18 witness: a node with two entering edges registered and no exiting one,
\* next to a node with an exiting edge and no entering one.
C18_Witness ==
  \E n, m \in Nodes :
    /\ Len(enteringEdgeNodes[n]) = 2
    /\ Len(exitingEdgeNodes[n]) = 0
    /\ Len(exitingEdgeNodes[m]) >= 1
    /\ Len(enteringEdgeNodes[m]) = 0

====
